---- MODULE Spec2Model ----
(***************************************************************************)
(* Model of src/blogGenerator.js: an Express service with two routes.      *)
(*   POST /generate  runs generateBlog(title, details) for each element    *)
(*                   of req.body.blogs, one after the other, and answers    *)
(*                   with the accumulated results.                          *)
(*   GET  /blog      answers with Blog.find().sort({ createdAt: -1 }).      *)
(* JavaScript runs each handler to its next await, so one action is the    *)
(* code between two awaits.  The Hugging Face client and MongoDB are the   *)
(* environment: a chatCompletion call resolves with some response or       *)
(* rejects, blog.save() inserts the document and resolves, or rejects.     *)
(* Strings the code computes on (the model text, the content) are          *)
(* sequences of one-character strings.                                     *)
(***************************************************************************)
EXTENDS Naturals, Sequences, FiniteSets

\* ---------------------------------------------------------------- bounds
\* POST /generate and GET /blog requests, elements of one blogs list,
\* elements of all the lists together, characters of a model text, and the
\* largest value of Date.now()
NumPosts == 2
NumGets == 2
MaxItems == 2
MaxTotalItems == 3
MaxTextLen == 1
MaxTime == 2
\* SpecGen: longer lists and longer texts, no GET /blog
MaxGenItems == 3
MaxGenTextLen == 3

Posts == 1..NumPosts
Gets == 1..NumGets

Titles == {"t1", "t2"}
Details == {"d1"}
Alphabet == {" ", "a"}

\* ------------------------------------------------------------- constants
\* "No content generated."
NoContent ==
  <<"N","o"," ","c","o","n","t","e","n","t"," ","g","e","n","e","r","a","t","e","d",".">>

\* "Failed to generate blog."
FailedContent ==
  <<"F","a","i","l","e","d"," ","t","o"," ","g","e","n","e","r","a","t","e"," ","b","l","o","g",".">>

BadRequestError == "Please provide blogs as an array of { title, details }"
ServerError == "Failed to generate blogs"

\* a plain object has no _id and no createdAt
NoId == <<>>
NoDate == 0

\* ---------------------------------------------------------------- inputs
SeqsUpTo(S, n) == UNION {[1..k -> S] : k \in 0..n}

\* an element of blogs: a { title, details } pair, or null
Pairs == [nul : {FALSE}, title : Titles, details : Details]
NullItem == [nul |-> TRUE, title |-> "", details |-> ""]
Items == Pairs \cup {NullItem}

\* req.body.blogs: absent (body {}), a string, or an array
BlogsValues ==
  {[type |-> "undefined", items |-> <<>>], [type |-> "string", items |-> <<>>]}
    \cup {[type |-> "array", items |-> s] : s \in SeqsUpTo(Items, MaxItems)}

\* what chatCompletion resolves with: the texts of its choices
Texts == SeqsUpTo(Alphabet, MaxTextLen)
Responses == {[choices |-> <<>>]} \cup {[choices |-> <<t>>] : t \in Texts}

GenBlogsValues ==
  {[type |-> "undefined", items |-> <<>>], [type |-> "string", items |-> <<>>]}
    \cup {[type |-> "array", items |-> s] : s \in SeqsUpTo(Items, MaxGenItems)}
GenTexts == SeqsUpTo(Alphabet, MaxGenTextLen)
GenResponses == {[choices |-> <<>>]} \cup {[choices |-> <<t>>] : t \in GenTexts}

\* ------------------------------------------------------- pure functions
IsWhitespace(c) == c \in {" ", "\t", "\n", "\r"}

RECURSIVE TrimStart(_)
TrimStart(s) ==
  IF s = <<>> THEN <<>>
  ELSE IF IsWhitespace(Head(s)) THEN TrimStart(Tail(s)) ELSE s

RECURSIVE TrimEnd(_)
TrimEnd(s) ==
  IF s = <<>> THEN <<>>
  ELSE IF IsWhitespace(s[Len(s)]) THEN TrimEnd(SubSeq(s, 1, Len(s) - 1)) ELSE s

\* mutant: trimStart() in place of trim()
TrimStartOnly(s) == TrimStart(s)

\* String.prototype.trim
Trim(s) == TrimEnd(TrimStart(s))

\* response?.choices?.[0]?.message?.content?.trim() || "No content generated."
ExtractContent(response) ==
  IF Len(response.choices) = 0 THEN NoContent
  ELSE LET t == Trim(response.choices[1])
       IN IF t = <<>> THEN NoContent ELSE t

\* new Blog({ title, details, content }): _id and createdAt are set here
NewBlog(id, title, details, content, time) ==
  [_id |-> id, title |-> title, details |-> details, content |-> content,
   createdAt |-> time]

\* mutant: the fields of the failure object exchanged
FailureRecordSwapped(title, details) ==
  [_id |-> NoId, title |-> details, details |-> title,
   content |-> FailedContent, createdAt |-> NoDate]

\* the object the catch block returns
FailureRecord(title, details) ==
  [_id |-> NoId, title |-> title, details |-> details,
   content |-> FailedContent, createdAt |-> NoDate]

\* mutant: the Array.isArray test left out
RejectsBodyNoArrayCheck(blogs) ==
  blogs.type = "undefined"

\* !blogs || !Array.isArray(blogs)
RejectsBody(blogs) ==
  blogs.type = "undefined" \/ blogs.type # "array"

\* mutant: { createdAt: 1 }, oldest first
RECURSIVE InsertAsc(_, _)
InsertAsc(r, s) ==
  IF s = <<>> THEN <<r>>
  ELSE IF Head(s).createdAt <= r.createdAt
       THEN <<Head(s)>> \o InsertAsc(r, Tail(s))
       ELSE <<r>> \o s

\* place r behind every document that is at least as new
RECURSIVE InsertDesc(_, _)
InsertDesc(r, s) ==
  IF s = <<>> THEN <<r>>
  ELSE IF Head(s).createdAt >= r.createdAt
       THEN <<Head(s)>> \o InsertDesc(r, Tail(s))
       ELSE <<r>> \o s

\* .sort({ createdAt: -1 }); documents of equal createdAt keep the
\* collection's natural order
RECURSIVE SortByCreatedAtDesc(_)
SortByCreatedAtDesc(s) ==
  IF s = <<>> THEN <<>>
  ELSE InsertDesc(s[Len(s)], SortByCreatedAtDesc(SubSeq(s, 1, Len(s) - 1)))

\* ----------------------------------------------------------------- state
VARIABLES
  now,        \* the last value Date.now() returned
  store,      \* the blogs collection, in natural order
  pc,         \* POST /generate: "idle", "infer", "save", "saved", "done"
  blogs,      \* POST /generate: req.body.blogs
  idx,        \* POST /generate: position of the for...of loop
  results,    \* POST /generate: const results
  apiResp,    \* generateBlog: const response, until blog.save() is sent
  doc,        \* generateBlog: const blog
  response,   \* POST /generate: what res sent
  calls,      \* history: the elements handed to generateBlog, in order
  pcG,        \* GET /blog: "idle", "find", "done", "failed"
  getResp,    \* GET /blog: what res sent
  getVersion  \* history: the number of inserts the read of GET /blog saw

vars == <<now, store, pc, blogs, idx, results, apiResp, doc, response, calls,
          pcG, getResp, getVersion>>

postVars == <<pc, blogs, idx, results, apiResp, doc, response, calls>>
getVars == <<pcG, getResp, getVersion>>

NoResponse == [status |-> 0, error |-> "", data |-> <<>>]
NoApiResp == [choices |-> <<>>]
NoDoc == NewBlog(NoId, "", "", <<>>, NoDate)

Init ==
  /\ now = 1
  /\ store = <<>>
  /\ pc = [p \in Posts |-> "idle"]
  /\ blogs = [p \in Posts |-> [type |-> "undefined", items |-> <<>>]]
  /\ idx = [p \in Posts |-> 0]
  /\ results = [p \in Posts |-> <<>>]
  /\ apiResp = [p \in Posts |-> NoApiResp]
  /\ doc = [p \in Posts |-> NoDoc]
  /\ response = [p \in Posts |-> NoResponse]
  /\ calls = [p \in Posts |-> <<>>]
  /\ pcG = [g \in Gets |-> "idle"]
  /\ getResp = [g \in Gets |-> <<>>]
  /\ getVersion = [g \in Gets |-> 0]

\* ------------------------------------------------------- POST /generate
\* mutant: the elements are started without awaiting the one before
ContinueLoopFanOut(p, items, res, k) ==
  /\ idx' = [idx EXCEPT ![p] = k]
  /\ results' = [results EXCEPT ![p] = res]
  /\ IF k > Len(items)
     THEN /\ pc' = [pc EXCEPT ![p] = "done"]
          /\ response' = [response EXCEPT
                ![p] = [status |-> 200, error |-> "", data |-> res]]
          /\ calls' = calls
     ELSE IF items[k].nul
     THEN /\ pc' = [pc EXCEPT ![p] = "done"]
          /\ response' = [response EXCEPT
                ![p] = [status |-> 500, error |-> ServerError, data |-> <<>>]]
          /\ calls' = calls
     ELSE /\ pc' = [pc EXCEPT ![p] = "infer"]
          /\ response' = response
          /\ calls' = [calls EXCEPT ![p] =
                IF k < Len(items) /\ ~items[k + 1].nul
                THEN Append(Append(@, k), k + 1) ELSE Append(@, k)]

\* mutant: the outer catch answers with the results so far
ContinueLoopPartial(p, items, res, k) ==
  /\ idx' = [idx EXCEPT ![p] = k]
  /\ results' = [results EXCEPT ![p] = res]
  /\ IF k > Len(items) \/ items[k].nul
     THEN /\ pc' = [pc EXCEPT ![p] = "done"]
          /\ response' = [response EXCEPT
                ![p] = [status |-> 200, error |-> "", data |-> res]]
          /\ calls' = calls
     ELSE /\ pc' = [pc EXCEPT ![p] = "infer"]
          /\ response' = response
          /\ calls' = [calls EXCEPT ![p] = Append(@, k)]

\* The for...of loop from element k on, with res the results so far, up to
\* its next await: the end of the list answers 200 with the results, a null
\* element throws at b.title and the outer catch answers 500, any other
\* element is handed to generateBlog, which awaits chatCompletion.
ContinueLoop(p, items, res, k) ==
  /\ idx' = [idx EXCEPT ![p] = k]
  /\ results' = [results EXCEPT ![p] = res]
  /\ IF k > Len(items)
     THEN /\ pc' = [pc EXCEPT ![p] = "done"]
          /\ response' = [response EXCEPT
                ![p] = [status |-> 200, error |-> "", data |-> res]]
          /\ calls' = calls
     ELSE IF items[k].nul
     THEN /\ pc' = [pc EXCEPT ![p] = "done"]
          /\ response' = [response EXCEPT
                ![p] = [status |-> 500, error |-> ServerError, data |-> <<>>]]
          /\ calls' = calls
     ELSE /\ pc' = [pc EXCEPT ![p] = "infer"]
          /\ response' = response
          /\ calls' = [calls EXCEPT ![p] = Append(@, k)]

RECURSIVE TotalItems(_)
TotalItems(n) ==
  IF n = 0 THEN 0 ELSE Len(blogs[n].items) + TotalItems(n - 1)

\* app.post("/generate") from the arrival of the request to its first await;
\* the requests are numbered in the order of their arrival
PostGenerate(p, b) ==
  /\ pc[p] = "idle"
  /\ \A q \in 1..(p - 1) : pc[q] # "idle"
  /\ TotalItems(NumPosts) + Len(b.items) <= MaxTotalItems
  /\ blogs' = [blogs EXCEPT ![p] = b]
  /\ IF RejectsBody(b)
     THEN /\ pc' = [pc EXCEPT ![p] = "done"]
          /\ response' = [response EXCEPT
                ![p] = [status |-> 400, error |-> BadRequestError, data |-> <<>>]]
          /\ UNCHANGED <<idx, results, calls>>
     ELSE ContinueLoop(p, b.items, <<>>, 1)
  /\ UNCHANGED <<now, store, apiResp, doc>>
  /\ UNCHANGED getVars

\* chatCompletion resolves with r while Date.now() is t: the content is
\* extracted, the document is constructed and blog.save() is awaited
InferenceResolves(p, r, t) ==
  /\ pc[p] = "infer"
  /\ t >= now
  /\ now' = t
  /\ apiResp' = [apiResp EXCEPT ![p] = r]
  /\ doc' = [doc EXCEPT ![p] =
        NewBlog(<<p, idx[p]>>, blogs[p].items[idx[p]].title,
                blogs[p].items[idx[p]].details, ExtractContent(r), t)]
  /\ pc' = [pc EXCEPT ![p] = "save"]
  /\ UNCHANGED <<store, blogs, idx, results, response, calls>>
  /\ UNCHANGED getVars

\* mutant: the catch block saves the failure object
InferenceRejectsPersisting(p) ==
  /\ pc[p] = "infer"
  /\ store' = Append(store, FailureRecord(blogs[p].items[idx[p]].title,
                                          blogs[p].items[idx[p]].details))
  /\ ContinueLoop(p, blogs[p].items,
        Append(results[p], FailureRecord(blogs[p].items[idx[p]].title,
                                         blogs[p].items[idx[p]].details)),
        idx[p] + 1)
  /\ UNCHANGED <<now, blogs, apiResp, doc>>
  /\ UNCHANGED getVars

\* mutant: generateBlog has no catch block, the error reaches the route's
InferenceRejectsAborting(p) ==
  /\ pc[p] = "infer"
  /\ pc' = [pc EXCEPT ![p] = "done"]
  /\ response' = [response EXCEPT
        ![p] = [status |-> 500, error |-> ServerError, data |-> <<>>]]
  /\ UNCHANGED <<now, store, blogs, idx, results, apiResp, doc, calls>>
  /\ UNCHANGED getVars

\* chatCompletion rejects: the catch block returns the failure object, the
\* route pushes it and goes on with the next element
InferenceRejects(p) ==
  /\ pc[p] = "infer"
  /\ ContinueLoop(p, blogs[p].items,
        Append(results[p], FailureRecord(blogs[p].items[idx[p]].title,
                                         blogs[p].items[idx[p]].details)),
        idx[p] + 1)
  /\ UNCHANGED <<now, store, blogs, apiResp, doc>>
  /\ UNCHANGED getVars

\* mutant: the save replaces a stored document of the same title
DbUpsertByTitle(p) ==
  /\ pc[p] = "save"
  /\ store' =
        IF \E k \in 1..Len(store) : store[k].title = doc[p].title
        THEN [k \in 1..Len(store) |->
                IF store[k].title = doc[p].title THEN doc[p] ELSE store[k]]
        ELSE Append(store, doc[p])
  /\ pc' = [pc EXCEPT ![p] = "saved"]
  /\ apiResp' = [apiResp EXCEPT ![p] = NoApiResp]
  /\ UNCHANGED <<now, blogs, idx, results, doc, response, calls>>
  /\ UNCHANGED getVars

\* the database inserts the document blog.save() sent; the response of the
\* model is not read again
DbInsert(p) ==
  /\ pc[p] = "save"
  /\ store' = Append(store, doc[p])
  /\ pc' = [pc EXCEPT ![p] = "saved"]
  /\ apiResp' = [apiResp EXCEPT ![p] = NoApiResp]
  /\ UNCHANGED <<now, blogs, idx, results, doc, response, calls>>
  /\ UNCHANGED getVars

\* blog.save() resolves: generateBlog returns the document, the route pushes
\* it and goes on with the next element
SaveResolves(p) ==
  /\ pc[p] = "saved"
  /\ ContinueLoop(p, blogs[p].items, Append(results[p], doc[p]), idx[p] + 1)
  /\ apiResp' = [apiResp EXCEPT ![p] = NoApiResp]
  /\ doc' = [doc EXCEPT ![p] = NoDoc]
  /\ UNCHANGED <<now, store, blogs>>
  /\ UNCHANGED getVars

\* blog.save() rejects before anything is inserted: the same catch block
SaveRejects(p) ==
  /\ pc[p] = "save"
  /\ ContinueLoop(p, blogs[p].items,
        Append(results[p], FailureRecord(blogs[p].items[idx[p]].title,
                                         blogs[p].items[idx[p]].details)),
        idx[p] + 1)
  /\ apiResp' = [apiResp EXCEPT ![p] = NoApiResp]
  /\ doc' = [doc EXCEPT ![p] = NoDoc]
  /\ UNCHANGED <<now, store, blogs>>
  /\ UNCHANGED getVars

\* ------------------------------------------------------------ GET /blog
\* app.get("/blog") sends the query and awaits it
GetBlog(g) ==
  /\ pcG[g] = "idle"
  /\ \A h \in 1..(g - 1) : pcG[h] # "idle"
  /\ pcG' = [pcG EXCEPT ![g] = "find"]
  /\ UNCHANGED <<now, store, getResp, getVersion>>
  /\ UNCHANGED postVars

\* mutant: the read takes the documents out of the collection
FindSortDraining(g) ==
  /\ pcG[g] = "find"
  /\ getResp' = [getResp EXCEPT ![g] = SortByCreatedAtDesc(store)]
  /\ getVersion' = [getVersion EXCEPT ![g] = Len(store)]
  /\ pcG' = [pcG EXCEPT ![g] = "done"]
  /\ store' = <<>>
  /\ UNCHANGED <<now>>
  /\ UNCHANGED postVars

\* the query is evaluated on the collection and res.json sends its result
FindSort(g) ==
  /\ pcG[g] = "find"
  /\ getResp' = [getResp EXCEPT ![g] = SortByCreatedAtDesc(store)]
  /\ getVersion' = [getVersion EXCEPT ![g] = Len(store)]
  /\ pcG' = [pcG EXCEPT ![g] = "done"]
  /\ UNCHANGED <<now, store>>
  /\ UNCHANGED postVars

\* the query rejects: the handler has no catch, nothing is sent
FindRejects(g) ==
  /\ pcG[g] = "find"
  /\ pcG' = [pcG EXCEPT ![g] = "failed"]
  /\ UNCHANGED <<now, store, getResp, getVersion>>
  /\ UNCHANGED postVars

Next ==
  \/ \E p \in Posts, b \in BlogsValues : PostGenerate(p, b)
  \/ \E p \in Posts, r \in Responses, t \in 1..MaxTime : InferenceResolves(p, r, t)
  \/ \E p \in Posts : InferenceRejects(p)
  \/ \E p \in Posts : DbInsert(p)
  \/ \E p \in Posts : SaveResolves(p)
  \/ \E p \in Posts : SaveRejects(p)
  \/ \E g \in Gets : GetBlog(g)
  \/ \E g \in Gets : FindSort(g)
  \/ \E g \in Gets : FindRejects(g)

Spec == Init /\ [][Next]_vars

\* POST /generate alone, with longer lists and texts and the clock standing
\* still: GET /blog writes nothing that POST /generate reads.
NextGen ==
  \/ \E p \in Posts, b \in GenBlogsValues : PostGenerate(p, b)
  \/ \E p \in Posts, r \in GenResponses : InferenceResolves(p, r, 1)
  \/ \E p \in Posts : InferenceRejects(p)
  \/ \E p \in Posts : DbInsert(p)
  \/ \E p \in Posts : SaveResolves(p)
  \/ \E p \in Posts : SaveRejects(p)

SpecGen == Init /\ [][NextGen]_vars

\* ================================================================ claims
InFlight(p) == pc[p] \in {"infer", "save", "saved"}
IsArray(p) == pc[p] # "idle" /\ blogs[p].type = "array"
NoNull(items) == \A i \in 1..Len(items) : ~items[i].nul
HasNull(items) == \E i \in 1..Len(items) : items[i].nul
IsFirstNull(items, k) ==
  k \in 1..Len(items) /\ items[k].nul /\ \A i \in 1..(k - 1) : ~items[i].nul
Failed(r) == r.content = FailedContent
StoredAt(id) == {k \in 1..Len(store) : store[k]._id = id}
CountTo(n) == [i \in 1..n |-> i]

\* C1: a request whose blogs is a list of N { title, details } pairs is
\* answered 200 with an array of exactly N elements, and element i carries
\* the title and the details of submitted element i, whatever the outcome of
\* each generation call and whatever the other requests do meanwhile.
C1_ResponseMatchesRequest ==
  \A p \in Posts :
    /\ (IsArray(p) /\ NoNull(blogs[p].items) /\ pc[p] = "done")
          => response[p].status = 200
    /\ response[p].status = 200 =>
          /\ IsArray(p)
          /\ Len(response[p].data) = Len(blogs[p].items)
          /\ \A i \in 1..Len(blogs[p].items) :
                /\ response[p].data[i].title = blogs[p].items[i].title
                /\ response[p].data[i].details = blogs[p].items[i].details

\* a two-element answer of a failure and a success with different titles,
\* sent while the other request was in flight
C1_Witness ==
  \E p, q \in Posts :
    /\ p # q
    /\ InFlight(q)
    /\ response[p].status = 200
    /\ Len(response[p].data) = 2
    /\ Failed(response[p].data[1])
    /\ ~Failed(response[p].data[2])
    /\ response[p].data[1].title # response[p].data[2].title

C2_FailureStepLeavesStore ==
  \A p \in Posts :
    (pc[p] = "infer" /\ results'[p] # results[p]) =>
      /\ results'[p] = Append(results[p],
            [_id |-> NoId, title |-> blogs[p].items[idx[p]].title,
             details |-> blogs[p].items[idx[p]].details,
             content |-> FailedContent, createdAt |-> NoDate])
      /\ store' = store

C2_NoFailureStored ==
  /\ \A k \in 1..Len(store) : ~Failed(store[k])
  /\ \A g \in Gets : \A k \in 1..Len(getResp[g]) : ~Failed(getResp[g][k])
  /\ \A p \in Posts : \A i \in 1..Len(results[p]) :
        Failed(results[p][i]) => StoredAt(<<p, i>>) = {}

C3_BadBodyRejected ==
  \A p \in Posts :
    (pc[p] # "idle" /\ blogs[p].type # "array") =>
      /\ pc[p] = "done"
      /\ response[p].status = 400
      /\ response[p].error = BadRequestError
      /\ calls[p] = <<>>
      /\ results[p] = <<>>
      /\ \A k \in 1..Len(store) : store[k]._id[1] # p

\* blogs: "not-an-array" was answered 400 after another request had stored
\* a record
C3_Witness ==
  \E p \in Posts :
    /\ blogs[p].type = "string"
    /\ response[p].status = 400
    /\ store # <<>>

\* C4: a generation call whose chatCompletion and save both succeed adds
\* exactly one record, with the title and details of the call and a
\* non-empty content: the text of the first choice without its leading and
\* trailing whitespace, or "No content generated." when there is no choice
\* or the text is empty or all whitespace.
AllWhitespace(t) == \A i \in 1..Len(t) : IsWhitespace(t[i])

IsContentOf(c, r) ==
  IF Len(r.choices) = 0 \/ AllWhitespace(r.choices[1])
  THEN c = NoContent
  ELSE LET t == r.choices[1]
       IN \E a, b \in 1..Len(t) :
            /\ a <= b
            /\ c = SubSeq(t, a, b)
            /\ ~IsWhitespace(t[a])
            /\ ~IsWhitespace(t[b])
            /\ \A i \in 1..(a - 1) : IsWhitespace(t[i])
            /\ \A i \in (b + 1)..Len(t) : IsWhitespace(t[i])

C4_SuccessAddsOneRecord ==
  \A p \in Posts :
    /\ pc[p] = "save" =>
          /\ IsContentOf(doc[p].content, apiResp[p])
          /\ doc[p].content # <<>>
          /\ doc[p].title = blogs[p].items[idx[p]].title
          /\ doc[p].details = blogs[p].items[idx[p]].details
          /\ StoredAt(<<p, idx[p]>>) = {}
    /\ pc[p] = "saved" =>
          /\ Cardinality(StoredAt(<<p, idx[p]>>)) = 1
          /\ \A k \in StoredAt(<<p, idx[p]>>) : store[k] = doc[p]
    /\ \A i \in 1..Len(results[p]) :
          ~Failed(results[p][i]) =>
            /\ Cardinality(StoredAt(<<p, i>>)) = 1
            /\ \A k \in StoredAt(<<p, i>>) : store[k] = results[p][i]
            /\ results[p][i].title = blogs[p].items[i].title
            /\ results[p][i].details = blogs[p].items[i].details
            /\ results[p][i].content # <<>>
    /\ \A k \in 1..Len(store) :
          store[k]._id[1] = p =>
            \/ /\ store[k]._id[2] \in 1..Len(results[p])
               /\ ~Failed(results[p][store[k]._id[2]])
            \/ pc[p] = "saved" /\ store[k]._id[2] = idx[p]

\* one call stored the sentinel for an all-whitespace text, the next one of
\* the same request is saving the inner part of " a "
C4_Witness ==
  \E p \in Posts :
    /\ Len(results[p]) >= 1
    /\ results[p][1].content = NoContent
    /\ Cardinality(StoredAt(<<p, 1>>)) = 1
    /\ pc[p] = "save"
    /\ apiResp[p].choices = << <<" ", "a", " ">> >>
    /\ doc[p].content = <<"a">>

\* C5: GET /blog answers with every record the store holds at the read, and
\* only those, by createdAt descending, whatever the order of the inserts.
SortedDesc(s) ==
  \A i \in 1..Len(s) : \A j \in 1..Len(s) :
    i < j => s[i].createdAt >= s[j].createdAt
SameRecords(s, t) ==
  /\ Len(s) = Len(t)
  /\ \A k \in 1..Len(t) : Cardinality({i \in 1..Len(s) : s[i] = t[k]}) = 1
  /\ \A i \in 1..Len(s) : \E k \in 1..Len(t) : s[i] = t[k]

C5_FindStep ==
  \A g \in Gets :
    (pcG[g] = "find" /\ pcG'[g] = "done") =>
      /\ SortedDesc(getResp'[g])
      /\ SameRecords(getResp'[g], store)

C5_GetNewestFirst == [][C5_FindStep]_vars

\* a read of three records of which a newer one was inserted before an
\* older one and an older one before a newer one
C5_Witness ==
  \E g \in Gets :
    /\ pcG[g] = "done"
    /\ getVersion[g] = 3
    /\ Len(getResp[g]) = 3
    /\ \E j, k \in 1..3 : j < k /\ store[j].createdAt > store[k].createdAt
    /\ \E j, k \in 1..3 : j < k /\ store[j].createdAt < store[k].createdAt

\* C6: GET /blog leaves the store as it is, and two GET /blog with no store
\* write between them answer with identical data.
C6_GetStep ==
  (\E g \in Gets : pcG'[g] # pcG[g]) => store' = store

C6_SameReads ==
  \A g, h \in Gets :
    (pcG[g] = "done" /\ pcG[h] = "done" /\ getVersion[g] = getVersion[h])
      => getResp[g] = getResp[h]

C7_FailureStep ==
  \A p \in Posts :
    (pc[p] \in {"infer", "save"} /\ pc'[p] \notin {"save", "saved"}
       /\ (pc'[p] # pc[p] \/ idx'[p] # idx[p])) =>
      LET n == Len(blogs[p].items)
          i == idx[p]
      IN /\ results'[p] = Append(results[p], results'[p][i])
         /\ Failed(results'[p][i])
         /\ i = n => pc'[p] = "done" /\ response'[p].status = 200
         /\ (i < n /\ ~blogs[p].items[i + 1].nul) =>
               pc'[p] = "infer" /\ calls'[p] = Append(calls[p], i + 1)

C7_AllItemsSent ==
  \A p \in Posts :
    (IsArray(p) /\ NoNull(blogs[p].items)) =>
      /\ \A i \in 1..Len(results[p]) :
            (Failed(results[p][i]) /\ i < Len(blogs[p].items)) =>
              \E c \in 1..Len(calls[p]) : calls[p][c] = i + 1
      /\ pc[p] = "done" =>
            /\ response[p].status = 200
            /\ calls[p] = CountTo(Len(blogs[p].items))
            /\ Len(results[p]) = Len(blogs[p].items)

C7_FailureDoesNotAbort == [][C7_FailureStep]_vars /\ []C7_AllItemsSent

\* the first of two calls failed, the second was made and the answer is 200
C7_Witness ==
  \E p \in Posts :
    /\ pc[p] = "done"
    /\ Len(blogs[p].items) = 2
    /\ Len(results[p]) = 2
    /\ Failed(results[p][1])
    /\ calls[p] = <<1, 2>>
    /\ response[p].status = 200

\* C8: a request hands its elements to generateBlog one at a time and in
\* order: element i + 1 is started only when the call for element i has
\* returned, so at most one chatCompletion or save of the request is
\* pending; calls of different requests interleave.
C8_Sequential ==
  \A p \in Posts :
    /\ calls[p] = CountTo(Len(calls[p]))
    /\ InFlight(p) =>
          /\ Len(calls[p]) = Len(results[p]) + 1
          /\ idx[p] = Len(calls[p])
    /\ ~InFlight(p) => Len(calls[p]) = Len(results[p])
    /\ pc[p] \in {"save", "saved"} => doc[p]._id = <<p, idx[p]>>
    /\ \A k \in 1..Len(store) :
          store[k]._id[1] = p => store[k]._id[2] <= Len(calls[p])

\* both requests have a call pending, one of them for its second element
C8_Witness ==
  \E p, q \in Posts :
    /\ p # q
    /\ pc[p] = "infer"
    /\ Len(results[p]) = 1
    /\ pc[q] = "save"

\* C9: a stored record is never changed or removed, and the store only
\* grows.
C9_Step ==
  /\ Len(store') >= Len(store)
  /\ \A k \in 1..Len(store) : \E j \in 1..Len(store') : store'[j] = store[k]

C9_AppendOnly == [][C9_Step]_vars

\* three records, two of one title, are stored and GET /blog has read them
C9_Witness ==
  /\ Len(store) = 3
  /\ \E j, k \in 1..3 : j # k /\ store[j].title = store[k].title
  /\ \E g \in Gets : pcG[g] = "done" /\ getVersion[g] = 3

\* C10: when element k of the list is null the request ends with 500 and the
\* generic error, the records stored for the elements before k stay in the
\* store, and neither k nor any later element is handed to generateBlog.
C10_NullElementAborts ==
  \A p \in Posts : \A k \in 1..Len(blogs[p].items) :
    (IsArray(p) /\ IsFirstNull(blogs[p].items, k)) =>
      /\ Len(calls[p]) < k
      /\ Len(results[p]) < k
      /\ pc[p] = "done" =>
            /\ response[p].status = 500
            /\ response[p].error = ServerError
            /\ response[p].data = <<>>
            /\ calls[p] = CountTo(k - 1)
            /\ Len(results[p]) = k - 1
            /\ \A i \in 1..(k - 1) :
                  ~Failed(results[p][i]) =>
                    \E j \in 1..Len(store) : store[j] = results[p][i]

\* [pair, null, pair] ended with 500: the record of the first element is
\* stored, the third element was never started
C10_Witness ==
  \E p \in Posts :
    /\ Len(blogs[p].items) = 3
    /\ IsFirstNull(blogs[p].items, 2)
    /\ ~blogs[p].items[3].nul
    /\ pc[p] = "done"
    /\ response[p].status = 500
    /\ ~Failed(results[p][1])
    /\ StoredAt(<<p, 1>>) # {}
    /\ calls[p] = <<1>>

====
